---- MODULE Spec2Model ----
(***************************************************************************)
(* Model of atopile's viewer lowering pass (src/atopile/viewer/render.py): *)
(* Bob, the builder that turns the typed model graph into a tree of        *)
(* Blocks, Pins and Links, and build_view, its entry point.                *)
(*                                                                         *)
(* Strings are sequences of tokens: a vertex ref is one token, and the     *)
(* separators "." and "-" are tokens of their own, so that concatenation,  *)
(* joining and splitting on dots are computed, not assumed.                *)
(***************************************************************************)
EXTENDS Integers, Sequences, FiniteSets, TLC

VARIABLES
    vtype,                    \* model.graph.vs["type"]: vertex index -> type name
    es,                       \* model.graph.es: the edges, in edge-index order
    graph0,                   \* the graph as handed to the first build (history)
    pc,                       \* position of build_view / Bob.build
    main,                     \* the root vertex of the running build
    all_verticies,            \* Bob.all_verticies
    block_stack,              \* Bob.block_stack
    block_directory_by_path,  \* Bob.block_directory_by_path: path -> Block
    pin_directory_by_vid,     \* Bob.pin_directory_by_vid: vertex index -> Pin
    frames,                   \* call stack of the recursive traversal
    ci,                       \* index of the connection the link loop is at
    result,                   \* what build_view returned (or the raised error)
    first,                    \* first result returned for each root (history)
    rebuilt                   \* the running build's root was built before (history)

vars == <<vtype, es, graph0, pc, main, all_verticies, block_stack,
          block_directory_by_path, pin_directory_by_vid, frames, ci, result, first, rebuilt>>

\* Largest number of connects_to edges in a graph.
MaxConnections == 2

\* Python's None, and the two ways build_view ends
None == <<>>
Returned(d) == <<"return", d>>
Raised(e) == <<e>>
EmptyDict == <<>>

-----------------------------------------------------------------------------
(* The graphs the builds run on.                                           *)

Vertices == 0 .. 9

\* The local name of each vertex (the last segment of its path).
VertexRef(v) ==
    CASE v = 0 -> "f"  [] v = 1 -> "M"  [] v = 2 -> "A"  [] v = 3 -> "I"
      [] v = 4 -> "p"  [] v = 5 -> "s"  [] v = 6 -> "q"  [] v = 7 -> "t"
      [] v = 8 -> "B"  [] v = 9 -> "r"

Edge(s, t, ty) == [source |-> s, target |-> t, type |-> ty]

\* Containment: f holds M and B; M holds A; A holds I, q, t; I holds p, s;
\* B holds r.
PartOfEdges ==
    << Edge(1, 0, "part_of"), Edge(2, 1, "part_of"), Edge(3, 2, "part_of"),
       Edge(4, 3, "part_of"), Edge(5, 3, "part_of"), Edge(6, 2, "part_of"),
       Edge(7, 2, "part_of"), Edge(8, 0, "part_of"), Edge(9, 8, "part_of") >>

\* The type of every vertex, A being of type a.
VertexTyping(a) ==
    [v \in Vertices |->
        CASE v = 0 -> "file"      [] v = 1 -> "module"   [] v = 2 -> a
          [] v = 3 -> "interface" [] v = 4 -> "pin"      [] v = 5 -> "signal"
          [] v = 6 -> "pin"       [] v = 7 -> "signal"   [] v = 8 -> "component"
          [] v = 9 -> "pin"]

\* The shapes of the design: A is a component, an interface, or (the
\* anomaly) a file in the middle of the hierarchy; block B has no
\* instance_of edge, one, or two (the tolerated anomaly).
Shapes ==
    { [typing |-> VertexTyping("component"), instance_ofs |-> <<>>],
      [typing |-> VertexTyping("component"),
       instance_ofs |-> << Edge(8, 2, "instance_of"), Edge(8, 1, "instance_of") >>],
      [typing |-> VertexTyping("interface"),
       instance_ofs |-> << Edge(8, 1, "instance_of") >>],
      [typing |-> VertexTyping("file"), instance_ofs |-> <<>>] }

\* Electrical connections that may be present, as (source, target).
ConnectCandidates ==
    { <<6, 7>>,                \* q - t : pin and signal of the same parent A
      <<5, 4>>,                \* s - p : signal and pin inside interface I
      <<6, 5>>,                \* q - s : signal of another parent
      <<6, 9>>,                \* q - r : pins of different blocks
      <<4, 9>>,                \* p - r : pin under an interface, pin elsewhere
      <<4, 6>>,                \* p - q : the interface is a child of the LCA
      <<9, 3>> }               \* r - I : an interface as endpoint

ConnectionLists ==
    UNION { [1 .. n -> { Edge(c[1], c[2], "connects_to") : c \in ConnectCandidates }]
            : n \in 0 .. MaxConnections }

\* The vertices build_view may be asked to build from.
Roots == {0, 1}

-----------------------------------------------------------------------------
(* Sequence and string helpers.                                            *)

RECURSIVE Join(_, _)
\* sep.join(parts), each part one token
Join(sep, parts) ==
    IF parts = <<>> THEN <<>>
    ELSE IF Len(parts) = 1 THEN <<parts[1]>>
    ELSE <<parts[1], sep>> \o Join(sep, Tail(parts))

MapRef(vs) == [i \in 1 .. Len(vs) |-> VertexRef(vs[i])]

Min(S) == CHOOSE x \in S : \A y \in S : x <= y

SeqToSet(s) == { s[i] : i \in 1 .. Len(s) }

-----------------------------------------------------------------------------
(* The graph accessors the builder consumes (ModelVertexView, ModelVisitor *)
(* and resolve_rel_name), read off the graph.                              *)

\* vertex.get_edges(mode, edge_type): the edges of that type into ("in") or
\* out of ("out") the vertex, in edge order.
get_edges(v, mode, ty) ==
    SelectSeq(es, LAMBDA e : /\ e.type = ty
                             /\ IF mode = "in" THEN e.target = v ELSE e.source = v)

\* vertex.get_adjacents(mode, edge_type): the vertices at the other end.
get_adjacents(v, mode, ty) ==
    LET hits == get_edges(v, mode, ty)
    IN  [i \in 1 .. Len(hits) |-> IF mode = "in" THEN hits[i].source ELSE hits[i].target]

HasParent(v) == get_adjacents(v, "out", "part_of") # <<>>
ParentOf(v) == get_adjacents(v, "out", "part_of")[1]

RECURSIVE AncestorChain(_)
\* the containment chain from the top of the graph down to v, v included
AncestorChain(v) ==
    IF HasParent(v) THEN Append(AncestorChain(ParentOf(v)), v) ELSE <<v>>

\* vertex.path, as the sequence of its segments
path(v) == MapRef(AncestorChain(v))

\* vertex.parent_path: the path without its last segment
parent_path(v) == SubSeq(path(v), 1, Len(path(v)) - 1)

IsPrefix(s, t) == Len(s) <= Len(t) /\ SubSeq(t, 1, Len(s)) = s

\* lca.relative_mvv_path(vertex): the vertices below lca down to the vertex
relative_mvv_path(lca, v) ==
    LET chain == AncestorChain(v)
        at    == CHOOSE i \in 1 .. Len(chain) : chain[i] = lca
    IN  SubSeq(chain, at + 1, Len(chain))

\* The deepest vertex that is an ancestor of both a and b.
LowestCommonAncestor(a, b) ==
    LET ca == AncestorChain(a)
        cb == AncestorChain(b)
        common == { i \in 1 .. Len(ca) : /\ i < Len(ca)
                                          /\ i < Len(cb)
                                          /\ SubSeq(ca, 1, i) = SubSeq(cb, 1, i) }
    IN  ca[CHOOSE i \in common : \A j \in common : j <= i]

\* resolve_rel_name([source, target]): the LCA and the connection's name.
\* The name is derived from the two endpoints only; it is kept as that pair.
resolve_rel_name(a, b) ==
    [lca |-> LowestCommonAncestor(a, b), name |-> <<"conn", VertexRef(a), VertexRef(b)>>]

\* ModelVisitor.wander(vertex, mode, edge_type, vertex_type): the adjacent
\* vertices of the listed types, each of which is then visited in order.
wander(v, mode, ty, vertex_types) ==
    SelectSeq(get_adjacents(v, mode, ty), LAMBDA c : vtype[c] \in vertex_types)

\* model.data: per-path data of the model; only p carries "fields".
HasModelFields(v) == v = 4
ModelFields(v) == <<"fields", path(v)>>

\* vertex.data: the vertex's own field mapping, opaque.
VertexData(v) == <<"data", v>>

-----------------------------------------------------------------------------
(* Bob: the builder.                                                       *)

EmptyMap == [x \in {} |-> x]

\* Variant of NewAllVerticies: the registry is shared by all builders (a
\* class-level list) and keeps what earlier builds recorded.
LeakedAllVerticies == all_verticies

\* Bob.__init__: the registry of a new builder
NewAllVerticies == <<>>

\* Pin(name, fields)
Pin(name, fields) == [name |-> name, fields |-> fields]

\* generic_visit_pin: the Pin made for a pin or signal vertex
generic_visit_pin(v) ==
    Pin(<<VertexRef(v)>>, IF HasModelFields(v) THEN ModelFields(v) ELSE EmptyDict)

\* Variant of Elided: the parent paths are not compared.
ElidedAnyParent(v) ==
    LET connections_in  == get_edges(v, "in", "connects_to")
        connections_out == get_edges(v, "out", "connects_to")
    IN  /\ Len(connections_in) + Len(connections_out) = 1
        /\ LET target == IF Len(connections_out) = 1
                         THEN connections_out[1].target
                         ELSE connections_in[1].source
           IN  vtype[target] = "signal"

\* visit_pin's filter: a pin with a single connection, to a signal within the
\* same block, makes no Pin
Elided(v) ==
    LET connections_in  == get_edges(v, "in", "connects_to")
        connections_out == get_edges(v, "out", "connects_to")
    IN  /\ Len(connections_in) + Len(connections_out) = 1
        /\ LET target == IF Len(connections_out) = 1
                         THEN connections_out[1].target
                         ELSE connections_in[1].source
           IN  /\ vtype[target] = "signal"
               /\ parent_path(target) = parent_path(v)

\* Variant of InterfacePrefix: the interface's ref is put after the name.
InterfaceSuffix(ref, name) == name \o <<"-", ref>>

\* visit_interface: pin.name = vertex.ref + "-" + pin.name
InterfacePrefix(ref, name) == <<ref, "-">> \o name

\* generic_visit_block: the instance_of of a block
InstanceOf(v) ==
    LET instance_ofs == get_adjacents(v, "out", "instance_of")
    IN  IF Len(instance_ofs) > 0 THEN path(instance_ofs[1]) ELSE None

\* Block(...), children and pins held by reference (directory path, pin vid)
Block(v, blocks, pins) ==
    [name |-> <<VertexRef(v)>>, type |-> vtype[v], fields |-> VertexData(v),
     blocks |-> blocks, pins |-> pins, links |-> <<>>,
     instance_of |-> InstanceOf(v), source |-> v]

\* Link(name, source, target)
Link(name, source, target) == [name |-> name, source |-> source, target |-> target]

\* Variant of _mod_path: the path is split at its last interface.
_mod_path_last(mvv_path) ==
    LET infs == { i \in 1 .. Len(mvv_path) : vtype[mvv_path[i]] = "interface" }
    IN  IF infs # {}
        THEN LET i == CHOOSE x \in infs : \A y \in infs : y <= x
                 pre_inf  == SubSeq(mvv_path, 1, i - 1)
                 post_inf == SubSeq(mvv_path, i, Len(mvv_path))
             IN  Join(".", MapRef(pre_inf)) \o <<".">> \o Join("-", MapRef(post_inf))
        ELSE Join(".", MapRef(mvv_path))

\* Bob.build._mod_path: dots up to the first interface of the path, dashes
\* from it on
_mod_path(mvv_path) ==
    LET infs == { i \in 1 .. Len(mvv_path) : vtype[mvv_path[i]] = "interface" }
    IN  IF infs # {}
        THEN LET i == Min(infs)
                 pre_inf  == SubSeq(mvv_path, 1, i - 1)
                 post_inf == SubSeq(mvv_path, i, Len(mvv_path))
             IN  Join(".", MapRef(pre_inf)) \o <<".">> \o Join("-", MapRef(post_inf))
        ELSE Join(".", MapRef(mvv_path))

\* Variant of AppendLink: the list is replaced by the new Link.
ReplaceLinks(block, link) == [block EXCEPT !.links = <<link>>]

\* links.append(link)
AppendLink(block, link) == [block EXCEPT !.links = Append(@, link)]

\* the frame of one running generic_visit_block or visit_interface call:
\* the children still to visit and what the visits returned so far
NewFrame(v, kind) ==
    [vertex |-> v, kind |-> kind,
     todo |-> IF kind = "block"
              THEN wander(v, "in", "part_of", {"component", "module"})
                   \o wander(v, "in", "part_of", {"pin", "signal", "interface"})
              ELSE wander(v, "in", "part_of", {"pin", "signal", "interface"}),
     blocks |-> <<>>, pins |-> <<>>]

Top == frames[Len(frames)]
Below == SubSeq(frames, 1, Len(frames) - 1)
Visiting(ty) ==
    /\ pc = "visit"
    /\ Top.todo # <<>>
    /\ vtype[Top.todo[1]] = ty
Advanced == [Top EXCEPT !.todo = Tail(@)]

\* the connects_to edges, as Bob.build selects them
Connections == SelectSeq(es, LAMBDA e : e.type = "connects_to")
all_indicies == SeqToSet(all_verticies)
Eligible(c) == c.source \in all_indicies /\ c.target \in all_indicies

RECURSIVE to_dict(_)
\* Block.to_dict, through the references
to_dict(p) ==
    LET b == block_directory_by_path[p]
    IN  [name |-> b.name, type |-> b.type, fields |-> b.fields,
         blocks |-> [i \in 1 .. Len(b.blocks) |-> to_dict(b.blocks[i])],
         pins |-> [i \in 1 .. Len(b.pins) |-> pin_directory_by_vid[b.pins[i]]],
         links |-> b.links, instance_of |-> b.instance_of]

-----------------------------------------------------------------------------
(* The steps of build_view.                                                *)

Graph == <<vtype, es>>

Init ==
    /\ \E shape \in Shapes, cs \in ConnectionLists :
          /\ vtype = shape.typing
          /\ es = PartOfEdges \o shape.instance_ofs \o cs
    /\ graph0 = <<vtype, es>>
    /\ pc = "idle"
    /\ main = None
    /\ all_verticies = <<>>
    /\ block_stack = <<>>
    /\ block_directory_by_path = EmptyMap
    /\ pin_directory_by_vid = EmptyMap
    /\ frames = <<>>
    /\ ci = 0
    /\ result = None
    /\ first = [r \in Roots |-> None]
    /\ rebuilt = FALSE

\* build_view(model, root_node): Bob(model), then generic_visit_block(main)
\* is entered
Build(m) ==
    /\ pc \in {"idle", "done", "error"}
    /\ main' = m
    /\ all_verticies' = Append(NewAllVerticies, m)
    /\ block_stack' = <<m>>
    /\ block_directory_by_path' = EmptyMap
    /\ pin_directory_by_vid' = EmptyMap
    /\ frames' = <<NewFrame(m, "block")>>
    /\ pc' = "visit"
    /\ ci' = 0
    /\ result' = None
    /\ rebuilt' = (first[m] # None)
    /\ UNCHANGED <<vtype, es, graph0, first>>

\* generic_visit_block entered for a child block
EnterBlock ==
    /\ all_verticies' = Append(all_verticies, Top.todo[1])
    /\ block_stack' = Append(block_stack, Top.todo[1])
    /\ frames' = Append(Append(Below, Advanced), NewFrame(Top.todo[1], "block"))
    /\ UNCHANGED <<vtype, es, graph0, pc, main, block_directory_by_path,
                   pin_directory_by_vid, ci, result, first, rebuilt>>

visit_component == Visiting("component") /\ EnterBlock

visit_module == Visiting("module") /\ EnterBlock

\* a Pin returned to the running wander_interface
KeepPin(v) ==
    /\ pin_directory_by_vid' = (v :> generic_visit_pin(v)) @@ pin_directory_by_vid
    /\ frames' = Append(Below, [Advanced EXCEPT !.pins = Append(@, v)])

visit_pin ==
    /\ Visiting("pin")
    /\ all_verticies' = Append(all_verticies, Top.todo[1])
    /\ IF Elided(Top.todo[1])
       THEN /\ frames' = Append(Below, Advanced)
            /\ UNCHANGED pin_directory_by_vid
       ELSE KeepPin(Top.todo[1])
    /\ UNCHANGED <<vtype, es, graph0, pc, main, block_stack,
                   block_directory_by_path, ci, result, first, rebuilt>>

visit_signal ==
    /\ Visiting("signal")
    /\ all_verticies' = Append(all_verticies, Top.todo[1])
    /\ KeepPin(Top.todo[1])
    /\ UNCHANGED <<vtype, es, graph0, pc, main, block_stack,
                   block_directory_by_path, ci, result, first, rebuilt>>

\* visit_interface entered: its wander_interface starts
visit_interface ==
    /\ Visiting("interface")
    /\ frames' = Append(Append(Below, Advanced), NewFrame(Top.todo[1], "interface"))
    /\ UNCHANGED <<vtype, es, graph0, pc, main, all_verticies, block_stack,
                   block_directory_by_path, pin_directory_by_vid, ci, result, first, rebuilt>>

\* visit_interface returns: every gathered pin is renamed, and the list is
\* spliced into the caller's
return_interface ==
    /\ pc = "visit"
    /\ Top.kind = "interface"
    /\ Top.todo = <<>>
    /\ pin_directory_by_vid' =
           [vid \in DOMAIN pin_directory_by_vid |->
               IF vid \in SeqToSet(Top.pins)
               THEN [pin_directory_by_vid[vid] EXCEPT
                        !.name = InterfacePrefix(VertexRef(Top.vertex), @)]
               ELSE pin_directory_by_vid[vid]]
    /\ frames' = Append(SubSeq(frames, 1, Len(frames) - 2),
                        [frames[Len(frames) - 1] EXCEPT !.pins = @ \o Top.pins])
    /\ UNCHANGED <<vtype, es, graph0, pc, main, all_verticies, block_stack,
                   block_directory_by_path, ci, result, first, rebuilt>>

\* generic_visit_block returns: the Block is made and indexed by its path
return_block ==
    /\ pc = "visit"
    /\ Top.kind = "block"
    /\ Top.todo = <<>>
    /\ block_directory_by_path' =
           (path(Top.vertex) :> Block(Top.vertex, Top.blocks, Top.pins))
           @@ block_directory_by_path
    /\ block_stack' = SubSeq(block_stack, 1, Len(block_stack) - 1)
    /\ IF Len(frames) = 1
       THEN /\ frames' = <<>>
            /\ pc' = "root"
       ELSE /\ frames' = Append(SubSeq(frames, 1, Len(frames) - 2),
                                [frames[Len(frames) - 1] EXCEPT
                                    !.blocks = Append(@, path(Top.vertex))])
            /\ pc' = pc
    /\ UNCHANGED <<vtype, es, graph0, main, all_verticies, pin_directory_by_vid,
                   ci, result, first, rebuilt>>

\* Bob.build: root.instance_of = main.path
set_root_instance_of ==
    /\ pc = "root"
    /\ block_directory_by_path' =
           [block_directory_by_path EXCEPT ![path(main)].instance_of = path(main)]
    /\ pc' = "links"
    /\ ci' = 1
    /\ UNCHANGED <<vtype, es, graph0, main, all_verticies, block_stack,
                   pin_directory_by_vid, frames, result, first, rebuilt>>

InLinkLoop == pc = "links" /\ ci <= Len(Connections)

\* the loop's continue: an endpoint was not visited
skip_connection ==
    /\ InLinkLoop
    /\ ~Eligible(Connections[ci])
    /\ ci' = ci + 1
    /\ UNCHANGED <<vtype, es, graph0, pc, main, all_verticies, block_stack,
                   block_directory_by_path, pin_directory_by_vid, frames, result, first, rebuilt>>

LinkOf(c) ==
    LET r == resolve_rel_name(c.source, c.target)
    IN  Link(r.name, _mod_path(relative_mvv_path(r.lca, c.source)),
                     _mod_path(relative_mvv_path(r.lca, c.target)))

LcaPath(c) == path(resolve_rel_name(c.source, c.target).lca)

\* the Link is appended to the Block the directory holds for the LCA
append_link ==
    /\ InLinkLoop
    /\ Eligible(Connections[ci])
    /\ LcaPath(Connections[ci]) \in DOMAIN block_directory_by_path
    /\ block_directory_by_path' =
           [block_directory_by_path EXCEPT
               ![LcaPath(Connections[ci])] = AppendLink(@, LinkOf(Connections[ci]))]
    /\ ci' = ci + 1
    /\ UNCHANGED <<vtype, es, graph0, pc, main, all_verticies, block_stack,
                   pin_directory_by_vid, frames, result, first, rebuilt>>

Finish(r, at) ==
    /\ result' = r
    /\ pc' = at
    /\ first' = IF first[main] = None THEN [first EXCEPT ![main] = r] ELSE first

\* the directory holds no Block under the LCA's path: KeyError
link_key_error ==
    /\ InLinkLoop
    /\ Eligible(Connections[ci])
    /\ LcaPath(Connections[ci]) \notin DOMAIN block_directory_by_path
    /\ Finish(Raised("KeyError"), "error")
    /\ UNCHANGED <<vtype, es, graph0, main, all_verticies, block_stack,
                   block_directory_by_path, pin_directory_by_vid, frames, ci, rebuilt>>

\* return root; build_view returns root.to_dict()
return_root ==
    /\ pc = "links"
    /\ ci > Len(Connections)
    /\ Finish(Returned(to_dict(path(main))), "done")
    /\ UNCHANGED <<vtype, es, graph0, main, all_verticies, block_stack,
                   block_directory_by_path, pin_directory_by_vid, frames, ci, rebuilt>>

Next ==
    \/ \E m \in Roots : Build(m)
    \/ visit_component
    \/ visit_module
    \/ visit_pin
    \/ visit_signal
    \/ visit_interface
    \/ return_interface
    \/ return_block
    \/ set_root_instance_of
    \/ skip_connection
    \/ append_link
    \/ link_key_error
    \/ return_root

Spec == Init /\ [][Next]_vars

-----------------------------------------------------------------------------
(* What the properties below talk about, stated on the graph alone.        *)

TraversalDone == pc \in {"root", "links", "done", "error"}
\* the traversal has just returned the tree, or build_view has returned it
TreeReturned == pc \in {"root", "done"}
BuildEnded == pc \in {"done", "error"}

BlockTypes == {"file", "module", "component"}
BlockRule == {"component", "module"}
PinRule == {"pin", "signal", "interface"}

Under(v) == main \in SeqToSet(AncestorChain(v))

\* v is the root, or is reached from it through child blocks only
BlockVisited(v) ==
    /\ Under(v)
    /\ \A w \in SeqToSet(relative_mvv_path(main, v)) : vtype[w] \in BlockRule

\* the nearest enclosing vertex of v that is no interface
RECURSIVE Owner(_)
Owner(v) ==
    IF HasParent(v) /\ vtype[ParentOf(v)] = "interface" THEN Owner(ParentOf(v))
    ELSE ParentOf(v)

\* v is a pin, signal or interface reached from the root: it lies below a
\* visited block, with nothing but interfaces in between
PinLikeVisited(v) ==
    /\ vtype[v] \in PinRule
    /\ HasParent(v)
    /\ Under(v)
    /\ v # main
    /\ Under(Owner(v))
    /\ BlockVisited(Owner(v))

\* the name a Pin made for v carries in its block: the refs of the enclosing
\* interfaces, outermost first, then v's own, joined by hyphens
FlatName(v) == Join("-", MapRef(relative_mvv_path(Owner(v), v)))

\* the places (block path, position) where the Pin of vertex v is listed
PinPlaces(v) ==
    UNION { { <<b, i>> : i \in { j \in 1 .. Len(block_directory_by_path[b].pins) :
                                   block_directory_by_path[b].pins[j] = v } }
            : b \in DOMAIN block_directory_by_path }

\* the connects_to edges at v, inbound plus outbound
ConnectionCount(v) ==
    Cardinality({ i \in 1 .. Len(es) : es[i].type = "connects_to" /\ es[i].target = v })
    + Cardinality({ i \in 1 .. Len(es) : es[i].type = "connects_to" /\ es[i].source = v })

OtherEnds(v) ==
    { es[i].source : i \in { j \in 1 .. Len(es) :
                              es[j].type = "connects_to" /\ es[j].target = v } }
    \cup { es[i].target : i \in { j \in 1 .. Len(es) :
                              es[j].type = "connects_to" /\ es[j].source = v } }

PassThrough(v) ==
    /\ ConnectionCount(v) = 1
    /\ \A o \in OtherEnds(v) : vtype[o] = "signal" /\ ParentOf(o) = ParentOf(v)

VisitedPins == { v \in Vertices : vtype[v] = "pin" /\ PinLikeVisited(v) }

\* all Links of the tree, as (block path, position)
LinkPlaces ==
    UNION { { <<b, i>> : i \in 1 .. Len(block_directory_by_path[b].links) }
            : b \in DOMAIN block_directory_by_path }
LinkAt(pl) == block_directory_by_path[pl[1]].links[pl[2]]

ConnName(c) == resolve_rel_name(c.source, c.target).name

\* connections the link loop has dealt with
Handled == { j \in 1 .. Len(Connections) : j < ci }

-----------------------------------------------------------------------------
\* C1: in the tree the traversal returns, and in the one build_view
\* returns, a visited pin has no Pin in any block's
\* pin list exactly when it has one connects_to edge in total, to a signal
\* of the same parent; in every other case it has exactly one Pin, listed
\* in its enclosing block and named after the vertex.
PinElisionExact ==
    TreeReturned =>
        \A v \in VisitedPins :
            IF PassThrough(v)
            THEN PinPlaces(v) = {} /\ v \notin DOMAIN pin_directory_by_vid
            ELSE /\ Cardinality(PinPlaces(v)) = 1
                 /\ \A pl \in PinPlaces(v) : pl[1] = path(Owner(v))
                 /\ pin_directory_by_vid[v].name[Len(pin_directory_by_vid[v].name)]
                        = VertexRef(v)

\* a build in which one pin was elided and another, with a single connection
\* to something that is no same-parent signal, was kept
PinElisionWitness ==
    /\ TraversalDone
    /\ \E v \in VisitedPins : PassThrough(v) /\ PinPlaces(v) = {}
    /\ \E v \in VisitedPins : ConnectionCount(v) = 1 /\ ~PassThrough(v)
                                /\ PinPlaces(v) # {}
    /\ \E v \in VisitedPins : ConnectionCount(v) = 0 /\ PinPlaces(v) # {}

\* C2: in the tree returned, an interface makes no Block and no Pin of its own, and every Pin made
\* below interfaces I1 .. In of a block is listed in that block under the
\* name I1-I2-...-In-P.
InterfaceFlattening ==
    TreeReturned =>
        /\ \A v \in Vertices :
              vtype[v] = "interface" /\ v # main =>
                  /\ path(v) \notin DOMAIN block_directory_by_path
                  /\ v \notin DOMAIN pin_directory_by_vid
                  /\ PinPlaces(v) = {}
        /\ \A v \in DOMAIN pin_directory_by_vid :
              /\ pin_directory_by_vid[v].name = FlatName(v)
              /\ PinPlaces(v) # {}
              /\ \A pl \in PinPlaces(v) : pl[1] = path(Owner(v))

\* pin p below interface I below interface A, flattened into module M
InterfaceFlatteningWitness ==
    /\ TraversalDone
    /\ 4 \in DOMAIN pin_directory_by_vid
    /\ pin_directory_by_vid[4].name = <<"A", "-", "I", "-", "p">>
    /\ \E pl \in PinPlaces(4) : pl[1] = path(1)

\* the endpoint string the dash/dot rule gives for a relative path: refs at
\* the odd places; between v(j) and v(j+1) a dot while j is before the first
\* interface and a hyphen from it on; a path that starts with the interface
\* starts with the dot
FirstInterface(vs) ==
    IF \E i \in 1 .. Len(vs) : vtype[vs[i]] = "interface"
    THEN Min({ i \in 1 .. Len(vs) : vtype[vs[i]] = "interface" })
    ELSE 0

DashDot(vs) ==
    LET k == FirstInterface(vs)
    IN  (IF k = 1 THEN <<".">> ELSE <<>>)
        \o [i \in 1 .. (2 * Len(vs) - 1) |->
               IF i % 2 = 1 THEN VertexRef(vs[(i + 1) \div 2])
               ELSE IF k = 0 \/ (i \div 2) < k THEN "." ELSE "-"]

\* C4: every Link made for a connection carries, for each endpoint, the
\* string of the dash/dot rule applied to the endpoint's path below the LCA.
DashDotBoundary ==
    \A j \in Handled :
        LET c == Connections[j]
            lca == resolve_rel_name(c.source, c.target).lca
        IN  Eligible(c) /\ path(lca) \in DOMAIN block_directory_by_path =>
                \E pl \in LinkPlaces :
                    /\ pl[1] = path(lca)
                    /\ LinkAt(pl).name = ConnName(c)
                    /\ LinkAt(pl).source = DashDot(relative_mvv_path(lca, c.source))
                    /\ LinkAt(pl).target = DashDot(relative_mvv_path(lca, c.target))

\* a Link whose source crosses two blocks before the interface, one whose
\* path starts with the interface, and an endpoint with no interface
DashDotWitness ==
    /\ pc = "done"
    /\ \E pl \in LinkPlaces : LinkAt(pl).source = <<"M", ".", "A", ".", "I", "-", "p">>
                              /\ LinkAt(pl).target = <<"B", ".", "r">>
    /\ \E pl \in LinkPlaces : LinkAt(pl).source = <<".", "I", "-", "p">>

\* C8: a build of a root built before returns what the first build of that
\* root returned, and the graph is the one the first build was given.
BuildIdempotent ==
    BuildEnded => result = first[main] /\ Graph = graph0

\* a second build of the same root has returned a tree with pins and links
BuildIdempotentWitness ==
    /\ pc = "done"
    /\ rebuilt
    /\ LinkPlaces # {}
    /\ pin_directory_by_vid # EmptyMap

-----------------------------------------------------------------------------
\* the connections with the endpoints of c
SameEnds(c) ==
    { j \in 1 .. Len(Connections) :
        Connections[j].source = c.source /\ Connections[j].target = c.target }

LinksNamed(n) == { pl \in LinkPlaces : LinkAt(pl).name = n }

\* C3: a build ends with exactly one Link per connects_to edge between two
\* recorded vertices, each in the Block the directory holds under the path
\* of the edge's LCA, wherever the two endpoints lie.
LinkScoping ==
    BuildEnded =>
        /\ pc = "done"
        /\ \A j \in 1 .. Len(Connections) :
              LET c == Connections[j]
              IN  Eligible(c) =>
                      /\ LcaPath(c) \in DOMAIN block_directory_by_path
                      /\ Cardinality(LinksNamed(ConnName(c))) = Cardinality(SameEnds(c))
                      /\ \A pl \in LinksNamed(ConnName(c)) : pl[1] = LcaPath(c)
        /\ Cardinality(LinkPlaces)
               = Cardinality({ j \in 1 .. Len(Connections) : Eligible(Connections[j]) })

\* a pin the traversal visited and made no Pin for
ElidedPin(v) == v \in VisitedPins /\ v \notin DOMAIN pin_directory_by_vid

\* a connection with an endpoint pruned by elision or outside the root's subtree
Dangling(c) ==
    \E e \in {c.source, c.target} : ~Under(e) \/ ElidedPin(e)

\* C5: a connection with an endpoint pruned by elision or outside the
\* subtree of the root has no Link in any Block, and the build does not
\* raise at it.
DanglingDropped ==
    BuildEnded =>
        \A j \in 1 .. Len(Connections) :
            Dangling(Connections[j]) =>
                /\ LinksNamed(ConnName(Connections[j])) = {}
                /\ ~(pc = "error" /\ ci = j)

RECURSIVE SplitDots(_)
\* str.split(".")
SplitDots(str) ==
    IF \E i \in 1 .. Len(str) : str[i] = "."
    THEN LET i == Min({ j \in 1 .. Len(str) : str[j] = "." })
         IN  <<SubSeq(str, 1, i - 1)>> \o SplitDots(SubSeq(str, i + 1, Len(str)))
    ELSE <<str>>

RECURSIVE Resolves(_, _)
\* the segments name child Blocks from block b down, then a Pin of the
\* Block reached
Resolves(b, segs) ==
    LET blk == block_directory_by_path[b]
    IN  IF Len(segs) = 1
        THEN \E i \in 1 .. Len(blk.pins) : pin_directory_by_vid[blk.pins[i]].name = segs[1]
        ELSE \E i \in 1 .. Len(blk.blocks) :
                /\ block_directory_by_path[blk.blocks[i]].name = segs[1]
                /\ Resolves(blk.blocks[i], Tail(segs))

\* C6: after a build, the source and the target of every Link of a Block
\* name, from that Block, a chain of child Blocks and then a Pin of the
\* Block reached.
LinkEndpointsResolve ==
    pc = "done" =>
        \A pl \in LinkPlaces :
            /\ Resolves(pl[1], SplitDots(LinkAt(pl).source))
            /\ Resolves(pl[1], SplitDots(LinkAt(pl).target))

\* a visited container has a part_of child of a type no rule of that
\* position covers
UncoveredChild ==
    \E c \in Vertices :
        /\ HasParent(c)
        /\ Under(ParentOf(c))
        /\ \/ BlockVisited(ParentOf(c)) /\ vtype[c] \notin (BlockRule \cup PinRule)
           \/ /\ vtype[ParentOf(c)] = "interface"
              /\ PinLikeVisited(ParentOf(c))
              /\ vtype[c] \notin PinRule

\* C7: a build whose traversal meets a child of an uncovered type does not
\* return a tree.
TypeDispatchExhaustive ==
    pc = "done" => ~UncoveredChild

\* the vertices a block of the claim stands for: the root and the
\* file/module/component vertices below it
ReachableBlocks ==
    { v \in Vertices : Under(v) /\ (v = main \/ vtype[v] \in BlockTypes) }

\* the vertices the traversal builds a Block for: the root and the
\* module/component vertices reached through such vertices only
VisitedBlocks == { v \in Vertices : BlockVisited(v) }

OneBlockEach(S) ==
    /\ DOMAIN block_directory_by_path = { path(v) : v \in S }
    /\ \A v \in S : block_directory_by_path[path(v)].source = v

SameButLinks(b1, b2) ==
    /\ b1.name = b2.name
    /\ b1.type = b2.type
    /\ b1.fields = b2.fields
    /\ b1.blocks = b2.blocks
    /\ b1.pins = b2.pins
    /\ b1.source = b2.source
    /\ IsPrefix(b1.links, b2.links)

WithinBuild == pc \notin {"idle", "done", "error"}

BlocksKeptAsCreated ==
    WithinBuild =>
        \A p \in DOMAIN block_directory_by_path :
            /\ p \in DOMAIN block_directory_by_path'
            /\ SameButLinks(block_directory_by_path[p], block_directory_by_path'[p])
            /\ block_directory_by_path'[p].instance_of
                   = block_directory_by_path[p].instance_of

BlocksKeptButRoot ==
    WithinBuild =>
        \A p \in DOMAIN block_directory_by_path :
            /\ p \in DOMAIN block_directory_by_path'
            /\ SameButLinks(block_directory_by_path[p], block_directory_by_path'[p])
            /\ \/ block_directory_by_path'[p].instance_of
                      = block_directory_by_path[p].instance_of
               \/ /\ pc = "root"
                  /\ p = path(main)
                  /\ block_directory_by_path'[p].instance_of = path(main)

NoLinkBeforeTree == pc \in {"visit", "root"} => LinkPlaces = {}

\* C9 as claimed: a build ends with one Block per file/module/component
\* vertex below the root; no Link before the traversal is over; a Block, once created, stays
\* in the directory and changes only by Links appended.
BlockLifecycleAsClaimed ==
    /\ [](BuildEnded => OneBlockEach(ReachableBlocks))
    /\ []NoLinkBeforeTree
    /\ [][BlocksKeptAsCreated]_vars

\* C9: a build ends with one Block for the root and for each module or
\* component reached from it through modules and components; no Link before the traversal is over;
\* a Block, once created, stays in the directory and changes only by Links
\* appended and, for the root, by instance_of set to the root's path when the
\* traversal returns.
BlockLifecycle ==
    /\ [](BuildEnded => OneBlockEach(VisitedBlocks))
    /\ []NoLinkBeforeTree
    /\ [][BlocksKeptButRoot]_vars

\* a build that made three Blocks and appended two Links to one of them
BlockLifecycleWitness ==
    /\ pc = "done"
    /\ Cardinality(DOMAIN block_directory_by_path) >= 3
    /\ \E p \in DOMAIN block_directory_by_path :
          Len(block_directory_by_path[p].links) = 2

\* C10: when the traversal is over, the registry holds exactly the vertices
\* reached from the root: blocks, pins, signals and interfaces.
RegistryComplete ==
    TraversalDone =>
        all_indicies = { v \in Vertices : BlockVisited(v) \/ PinLikeVisited(v) }

====
